---- MODULE Spec2Model ----
(***************************************************************************)
(* Unity Bridge Lite client (Skills/unity/scripts/unity_client.py):        *)
(* status-file discovery, the process-wide socket pool, the newline-framed *)
(* request/response exchange of send_command, the alias table and the      *)
(* command-line entry point main.                                          *)
(*                                                                         *)
(* Bytes on the wire are modelled as sequences of tokens: one token for    *)
(* the text of a complete JSON value, one for a newline byte, one for      *)
(* bytes that are not JSON.  The status directory is the list glob.glob    *)
(* returns.  Every blocking socket call is one step of the calling         *)
(* execution context, so the endpoint can act between any two of them.     *)
(***************************************************************************)
EXTENDS Integers, Sequences, FiniteSets, TLC

VARIABLES
    files,      \* the status directory: bridge-*.json files in glob order
    listening,  \* the ports the endpoint accepts connections on
    conns,      \* every TCP connection ever established, by creation order
    pool,       \* _socket_pool: key "127.0.0.1:<port>" -> connection
    ctx,        \* per execution context: position in send_command / main and locals
    ncalls,     \* number of send_command / main calls started so far
    ncloses,    \* number of close_connection calls made by the library user
    nfaults     \* number of environment events spent so far

vars == <<files, listening, conns, pool, ctx, ncalls, ncloses, nfaults>>

-----------------------------------------------------------------------------
(* Bounds of the model *)

MaxCalls == 3
MaxFaults == 2
MaxFiles == 2
MaxMtime == 2

-----------------------------------------------------------------------------
(* Values *)

\* A JSON "port" value as Python sees it after json.load: None (absent or
\* null), an int, or a str.
NonePort == [ty |-> "none", n |-> 0, s |-> ""]
IntPort(n) == [ty |-> "int", n |-> n, s |-> ""]
StrPort(s) == [ty |-> "str", n |-> 0, s |-> s]

Ports == {8080, 8081}

\* the port values a status file of the model may hold
PortVals == {NonePort, IntPort(0), StrPort("8080")} \cup {IntPort(p) : p \in Ports}

\* Python truthiness of a port value, as tested by "if port:"
Truthy(p) ==
    CASE p.ty = "none" -> FALSE
      [] p.ty = "int" -> p.n # 0
      [] p.ty = "str" -> p.s # ""

\* str(port) inside the f-string of the pool key
PortText(p) ==
    CASE p.ty = "int" -> ToString(p.n)
      [] p.ty = "str" -> p.s
      [] p.ty = "none" -> "None"

\* Key that leaves the port out
KeyHostOnly(p) == "127.0.0.1:"

\* key = f"127.0.0.1:{port}"
Key(p) == "127.0.0.1:" \o PortText(p)

\* A JSON value of the protocol.  obj: it is a JSON object; status: its
\* "status" field ("" when it has none); body: its "result" or "error"
\* field; re: the call whose request the endpoint answered with it (0 for
\* values the client builds itself).
NoVal == [obj |-> FALSE, status |-> "", body |-> "", re |-> 0]
ErrorResponse(msg) == [obj |-> TRUE, status |-> "error", body |-> msg, re |-> 0]

\* tokens of a byte stream
JsonTok(v) == [k |-> "json", v |-> v]
NlTok == [k |-> "nl", v |-> NoVal]
JunkTok == [k |-> "junk", v |-> NoVal]

\* what a send_command call gave its caller: a returned value, or an
\* exception that left the function
Returned(v) == [raised |-> FALSE, exc |-> "", val |-> v]
Raised(e) == [raised |-> TRUE, exc |-> e, val |-> NoVal]
NoRet == [raised |-> FALSE, exc |-> "", val |-> NoVal]

-----------------------------------------------------------------------------
(* find_unity_port *)

\* kinds of status file:
\*   garbage     text that is not JSON          (json.JSONDecodeError)
\*   nonobj      valid JSON that is no object   (data.get: AttributeError)
\*   obj         a JSON object; port is data.get('port')
\*   vanishStat  listed by glob, removed before os.path.getmtime
\*   vanishOpen  listed by glob, removed before open
FileKinds == {"garbage", "nonobj", "obj", "vanishStat", "vanishOpen"}

StatusFile(m, k, p) == [mtime |-> m, kind |-> k, port |-> p]

FileSet ==
    {StatusFile(m, k, NonePort) : m \in 1..MaxMtime, k \in FileKinds \ {"obj"}}
        \cup {StatusFile(m, "obj", p) : m \in 1..MaxMtime, p \in PortVals}

\* list.sort(key=os.path.getmtime, reverse=True): stable, so files of equal
\* mtime keep their glob order
RECURSIVE InsertDesc(_, _)
InsertDesc(f, sorted) ==
    IF sorted = <<>> THEN <<f>>
    ELSE IF Head(sorted).mtime >= f.mtime
         THEN <<Head(sorted)>> \o InsertDesc(f, Tail(sorted))
         ELSE <<f>> \o sorted

RECURSIVE SortByMtimeDesc(_)
SortByMtimeDesc(fs) ==
    IF fs = <<>> THEN <<>>
    ELSE InsertDesc(fs[Len(fs)], SortByMtimeDesc(SubSeq(fs, 1, Len(fs) - 1)))

DiscOk(p) == [port |-> p, error |-> "", exc |-> ""]
DiscErr(msg) == [port |-> NonePort, error |-> msg, exc |-> ""]
DiscRaise(e) == [port |-> NonePort, error |-> "", exc |-> e]

\* the "if port:" test of the scan loop
PortAccepted(p) == Truthy(p)

\* the for loop over the sorted files
RECURSIVE ScanFiles(_)
ScanFiles(fs) ==
    IF fs = <<>> THEN DiscErr("Could not read port from Unity status files")
    ELSE LET f == Head(fs) IN
         CASE f.kind \in {"garbage", "vanishOpen"} -> ScanFiles(Tail(fs))
           [] f.kind = "nonobj" -> DiscRaise("AttributeError")
           [] f.kind = "obj" ->
                IF PortAccepted(f.port) THEN DiscOk(f.port) ELSE ScanFiles(Tail(fs))
           [] OTHER -> DiscRaise("FileNotFoundError")

\* find_unity_port falling back to a default port when no file matches
find_unity_port_default(fs) ==
    IF fs = <<>>
    THEN DiscOk(IntPort(8080))
    ELSE IF \E i \in 1..Len(fs) : fs[i].kind = "vanishStat"
         THEN DiscRaise("FileNotFoundError")
         ELSE ScanFiles(SortByMtimeDesc(fs))

\* find_unity_port without the sort: the files are tried in glob order
find_unity_port_unsorted(fs) ==
    IF fs = <<>>
    THEN DiscErr("No Unity port files found. Is Unity running with Bridge Lite?")
    ELSE IF \E i \in 1..Len(fs) : fs[i].kind = "vanishStat"
         THEN DiscRaise("FileNotFoundError")
         ELSE ScanFiles(fs)

find_unity_port(fs) ==
    IF fs = <<>>
    THEN DiscErr("No Unity port files found. Is Unity running with Bridge Lite?")
    ELSE IF \E i \in 1..Len(fs) : fs[i].kind = "vanishStat"
         THEN DiscRaise("FileNotFoundError")
         ELSE ScanFiles(SortByMtimeDesc(fs))

\* files that glob listed but that were removed during the scan are gone
\* after it
RECURSIVE AfterScan(_)
AfterScan(fs) ==
    IF fs = <<>> THEN <<>>
    ELSE IF Head(fs).kind \in {"vanishStat", "vanishOpen"}
         THEN AfterScan(Tail(fs))
         ELSE <<Head(fs)>> \o AfterScan(Tail(fs))

-----------------------------------------------------------------------------
(* COMMANDS and alias resolution *)

\* the alias table, key |-> canonical name
COMMANDS == [
    ping |-> "ping", list |-> "list_commands",
    list_commands |-> "list_commands", scene |-> "get_scene_info",
    scene_info |-> "get_scene_info", get_scene_info |-> "get_scene_info",
    hierarchy |-> "get_hierarchy", get_hierarchy |-> "get_hierarchy",
    selection |-> "get_selection", get_selection |-> "get_selection",
    create |-> "create_gameobject", create_gameobject |-> "create_gameobject",
    menu |-> "execute_menu", execute_menu |-> "execute_menu",
    play |-> "set_play_mode", set_play_mode |-> "set_play_mode",
    console |-> "get_console", get_console |-> "get_console",
    color |-> "set_material_color", set_color |-> "set_material_color",
    set_material_color |-> "set_material_color", select |-> "select_gameobject",
    select_gameobject |-> "select_gameobject", rotate |-> "start_rotation",
    start_rotation |-> "start_rotation", stop_rotation |-> "stop_rotation",
    orbit |-> "start_orbit", start_orbit |-> "start_orbit",
    stop_orbit |-> "stop_orbit", install |-> "install_package",
    install_package |-> "install_package", packages |-> "get_packages",
    get_packages |-> "get_packages", settings |-> "open_settings",
    open_settings |-> "open_settings", player |-> "get_player_settings",
    get_player_settings |-> "get_player_settings", set_player |-> "set_player_settings",
    set_player_settings |-> "set_player_settings", build_target |-> "get_build_target",
    get_build_target |-> "get_build_target", set_build_target |-> "set_build_target",
    switch_platform |-> "set_build_target", multiset |-> "get_multiset_config",
    get_multiset |-> "get_multiset_config", get_multiset_config |-> "get_multiset_config",
    set_multiset |-> "set_multiset_config", set_multiset_config |-> "set_multiset_config",
    create_so |-> "create_scriptable_object", create_scriptable_object |-> "create_scriptable_object",
    verify_multiset |-> "verify_multiset_sdk", verify_multiset_sdk |-> "verify_multiset_sdk",
    import_samples |-> "import_multiset_samples", import_multiset_samples |-> "import_multiset_samples",
    check_scene |-> "check_multiset_scene", check_multiset_scene |-> "check_multiset_scene",
    delete |-> "delete_gameobject", delete_gameobject |-> "delete_gameobject",
    rename |-> "rename_gameobject", rename_gameobject |-> "rename_gameobject",
    transform |-> "set_transform", set_transform |-> "set_transform",
    get_transform |-> "get_transform", find |-> "find_gameobject",
    find_gameobject |-> "find_gameobject", duplicate |-> "duplicate_gameobject",
    duplicate_gameobject |-> "duplicate_gameobject", set_parent |-> "set_parent",
    parent |-> "set_parent"]

\* lower case of the names of the model that are not all lower case
Lower(name) ==
    CASE name \in {"Rotate", "ROTATE"} -> "rotate"
      [] name \in {"PING", "Ping"} -> "ping"
      [] OTHER -> name

\* Resolve with a lookup that ignores letter case
ResolveAnyCase(name) ==
    IF Lower(name) \in DOMAIN COMMANDS THEN COMMANDS[Lower(name)] ELSE name

\* Resolve that looks nothing up
ResolveNothing(name) == name

\* Resolve over a table in which one alias names another alias
ResolveViaAlias(name) ==
    IF name = "rotate" THEN "orbit"
    ELSE IF name \in DOMAIN COMMANDS THEN COMMANDS[name] ELSE name

\* COMMANDS.get(name, name)
Resolve(name) == IF name \in DOMAIN COMMANDS THEN COMMANDS[name] ELSE name

-----------------------------------------------------------------------------
(* Requests *)

\* Python truthiness of a params value, as tested by "params or {}"; params
\* values are written as their JSON text, "None" for the default argument
Falsy(p) == p \in {"None", "{}", "[]", "0", "false", "\"\""}

\* The text of a string of the model as json.dumps reads it: the
\* characters it escapes each on their own, the other characters in runs
Chars(s) ==
    CASE s = "a\nb" -> <<"a", "\n", "b">>
      [] s = "\n" -> <<"\n">>
      [] s = "say \"hi\"" -> <<"say ", "\"", "hi", "\"">>
      [] s = "c:\\tmp" -> <<"c:", "\\", "tmp">>
      [] OTHER -> <<s>>

\* Escape that writes every character as it is
EscapeNothing(ch) == ch

\* json.dumps of one character of a string: newline, quote and backslash
\* are written as two-character escapes
Escape(ch) ==
    CASE ch = "\n" -> "\\n"
      [] ch = "\"" -> "\\\""
      [] ch = "\\" -> "\\\\"
      [] OTHER -> ch

\* json.dumps of a string
DumpsStr(str) ==
    <<"\"">> \o [i \in DOMAIN Chars(str) |-> Escape(Chars(str)[i])] \o <<"\"">>

\* the Python dict {"msg": "a<newline>b"}
NewlineParams == "{\"msg\": \"a\nb\"}"

\* json.dumps of a params value: the values written as JSON text are their
\* own serialisation
DumpsParams(p) ==
    IF p = NewlineParams
    THEN <<"{\"msg\": ">> \o DumpsStr("a\nb") \o <<"}">>
    ELSE <<p>>

\* payload = json.dumps({"type": command, "params": params or {}}) + "\n",
\* as a sequence of pieces of text
Payload(command, params) ==
    <<"{\"type\": ">> \o DumpsStr(command) \o <<", \"params\": ">>
        \o DumpsParams(IF Falsy(params) THEN "{}" ELSE params) \o <<"}", "\n">>

\* the object json.dumps serialises and the bytes written for it; call
\* tags the frame with the call that wrote it
Frame(command, params, call) ==
    [type |-> command, params |-> IF Falsy(params) THEN "{}" ELSE params,
     call |-> call, wire |-> Payload(command, params)]

\* (command, params, timeout) of the send_command calls the model makes
LibCalls ==
    { <<"ping", "None", 30>>,
      <<"rotate", "{\"name\": \"Cube\"}", 5>> }

\* params values a caller may pass, written as their JSON text: the default
\* None, the falsy values, and truthy objects, sequences, numbers, strings
\* and booleans
ParamVals ==
    {"None", "{}", "[]", "0", "false", "\"\"",
     "{\"name\": \"Cube\"}", "{\"a\": {\"b\": [1, 2]}}", "[1, [2]]", "7", "\"x\"", "true"}

ParamCalls == {<<"ping", p, 30>> : p \in ParamVals}

\* calls whose command name or params hold newlines, quotes, backslashes
FrameCalls ==
    {<<c, p, 30>> : c \in {"ping", "a\nb", "\n", "say \"hi\"", "c:\\tmp"},
                    p \in {"None", "[]", "{\"name\": \"Cube\"}", NewlineParams}}

-----------------------------------------------------------------------------
(* Sockets and the pool *)

Threads == {1, 2}

NewConn(p, timeout) ==
    [port |-> p,          \* the port it was connected to
     timeout |-> timeout, \* settimeout value; 0 is non-blocking mode
     closed |-> 0,        \* number of close() calls on the client's socket object
     peer |-> "open",     \* "closed" once the endpoint closed its end
     inbuf |-> <<>>,      \* bytes received and not yet read by the client
     inreq |-> <<>>,      \* request frames the endpoint has not answered yet
     owesNL |-> FALSE,    \* the endpoint wrote a reply without its newline so far
     shared |-> FALSE]    \* a context wrote on it while another was using it

EmptyPool == [k \in {} |-> 0]

\* Peek without the "if not data: raise" test: b"" passes for "no data"
PeekIgnoresEof(c) ==
    CASE c.closed > 0 -> "error"
      [] c.inbuf # <<>> -> "data"
      [] OTHER -> "block"

\* sock.recv(1, socket.MSG_PEEK) on the non-blocking pooled socket:
\*   "error"  the socket object is closed (OSError)
\*   "data"   at least one byte is pending
\*   "eof"    b"" : the peer closed
\*   "block"  BlockingIOError
Peek(c) ==
    CASE c.closed > 0 -> "error"
      [] c.inbuf # <<>> -> "data"
      [] c.peer = "closed" -> "eof"
      [] OTHER -> "block"

\* IsAlive with pending bytes taken for a failure
IsAliveOnlyIfIdle(c) == Peek(c) = "block"

\* IsAlive with BlockingIOError taken for a failure
IsAliveOnlyWithData(c) == Peek(c) = "data"

\* the liveness test of get_socket: the pooled socket is handed back
IsAlive(c) == Peek(c) \in {"data", "block"}

\* CloseTargets that takes every key, whatever the port
CloseTargetsAll(pl, port) == DOMAIN pl

\* the keys close_connection(port) closes and deletes
CloseTargets(pl, port) ==
    IF Truthy(port)
    THEN IF Key(port) \in DOMAIN pl THEN {Key(port)} ELSE {}
    ELSE DOMAIN pl

\* ConnsAfterClose without the close() calls: the entries are only deleted
ConnsAfterCloseDeleteOnly(cs, pl, port) == cs

PoolAfterClose(pl, port) ==
    [k \in DOMAIN pl \ CloseTargets(pl, port) |-> pl[k]]

ConnsAfterClose(cs, pl, port) ==
    [c \in DOMAIN cs |->
        IF \E k \in CloseTargets(pl, port) : pl[k] = c
        THEN [cs[c] EXCEPT !.closed = @ + 1]
        ELSE cs[c]]

\* b"\n" in response
HasNewline(resp) == \E i \in 1..Len(resp) : resp[i].k = "nl"

\* str.strip(): leading and trailing whitespace removed
RECURSIVE StripLeft(_)
StripLeft(resp) ==
    IF resp # <<>> /\ Head(resp).k = "nl" THEN StripLeft(Tail(resp)) ELSE resp

RECURSIVE StripRight(_)
StripRight(resp) ==
    IF resp # <<>> /\ resp[Len(resp)].k = "nl"
    THEN StripRight(SubSeq(resp, 1, Len(resp) - 1))
    ELSE resp

Strip(resp) == StripRight(StripLeft(resp))

\* response += chunk.  A junk token stands for any run of bytes that are
\* neither JSON nor a newline, so two in a row are one
RECURSIVE MergeJunk(_)
MergeJunk(bs) ==
    IF Len(bs) < 2 THEN bs
    ELSE IF bs[1].k = "junk" /\ bs[2].k = "junk"
         THEN MergeJunk(Tail(bs))
         ELSE <<bs[1]>> \o MergeJunk(Tail(bs))

Accumulate(response, chunk) == MergeJunk(response \o chunk)

\* json.loads(response.decode('utf-8').strip()): the whole accumulated
\* buffer must be the text of exactly one JSON value
ParseOk(resp) == Len(Strip(resp)) = 1 /\ Strip(resp)[1].k = "json"
ParseVal(resp) == Strip(resp)[1].v

-----------------------------------------------------------------------------
(* Execution contexts *)

IdleCtx ==
    [pc |-> "idle", mode |-> "lib", argv |-> "", command |-> "", params |-> "",
     timeout |-> 0, port |-> NonePort, sock |-> 0, response |-> <<>>,
     ret |-> NoRet, call |-> 0,
     ops |-> <<>>,      \* socket operations of the current call, in order
     sent |-> <<>>,     \* frames the current call wrote
     f0 |-> 0,          \* nfaults when the current call began
     c0 |-> 0,          \* Len(conns) when the current call began
     pend |-> <<>>,     \* unread bytes of the pooled socket when it was validated
     parsed |-> "",     \* main: what parse_args made of the command line
     exit |-> -1]

Init ==
    /\ files \in {<<>>} \cup {<<f>> : f \in {g \in FileSet : g.mtime = 1}}
    /\ listening = {8080}
    /\ conns = <<>>
    /\ pool = EmptyPool
    /\ ctx = [t \in Threads |-> IdleCtx]
    /\ ncalls = 0
    /\ ncloses = 0
    /\ nfaults = 0

\* send_command(command, params, timeout) is entered
Call(t, in) ==
    /\ ctx[t].pc = "idle"
    /\ ncalls + ncloses < MaxCalls
    /\ ncalls' = ncalls + 1
    /\ ctx' = [ctx EXCEPT ![t] = [IdleCtx EXCEPT !.pc = "discover", !.command = in[1],
                                   !.params = in[2], !.timeout = in[3],
                                   !.call = ncalls + 1, !.f0 = nfaults,
                                   !.c0 = Len(conns)]]
    /\ UNCHANGED <<files, listening, conns, pool, ncloses, nfaults>>

\* port, error = find_unity_port(); if error: return {...}
Discover(t) ==
    /\ ctx[t].pc = "discover"
    /\ LET d == find_unity_port(files) IN
       ctx' = [ctx EXCEPT ![t] =
                 IF d.exc # "" THEN [@ EXCEPT !.pc = "done", !.ret = Raised(d.exc)]
                 ELSE IF d.error # ""
                      THEN [@ EXCEPT !.pc = "done",
                                     !.ret = Returned(ErrorResponse(d.error))]
                      ELSE [@ EXCEPT !.pc = "acquire", !.port = d.port]]
    /\ files' = AfterScan(files)
    /\ UNCHANGED <<listening, conns, pool, ncalls, ncloses, nfaults>>

\* the socket operations of a call with more appended; the passes of one
\* read loop are one "recv" entry
AddOps(ops, newops) ==
    IF ops # <<>> /\ ops[Len(ops)] = "recv" /\ newops = <<"recv">>
    THEN ops
    ELSE ops \o newops

\* Fail with close_connection missing from the "except Exception" clause
FailGenericKeeps(t, kind, msg, cs, newops) ==
    LET closes == kind = "timeout"
        hit == closes /\ CloseTargets(pool, ctx[t].port) # {}
    IN /\ pool' = IF closes THEN PoolAfterClose(pool, ctx[t].port) ELSE pool
       /\ conns' = IF closes THEN ConnsAfterClose(cs, pool, ctx[t].port) ELSE cs
       /\ ctx' = [ctx EXCEPT ![t] =
                    [@ EXCEPT !.pc = "done",
                              !.ret = Returned(ErrorResponse(msg)),
                              !.ops = AddOps(@, newops) \o
                                      (IF hit THEN <<"close">> ELSE <<>>)]]

\* Fail with close_connection missing from the "except socket.timeout" clause
FailTimeoutKeeps(t, kind, msg, cs, newops) ==
    LET closes == kind = "other"
        hit == closes /\ CloseTargets(pool, ctx[t].port) # {}
    IN /\ pool' = IF closes THEN PoolAfterClose(pool, ctx[t].port) ELSE pool
       /\ conns' = IF closes THEN ConnsAfterClose(cs, pool, ctx[t].port) ELSE cs
       /\ ctx' = [ctx EXCEPT ![t] =
                    [@ EXCEPT !.pc = "done",
                              !.ret = Returned(ErrorResponse(msg)),
                              !.ops = AddOps(@, newops) \o
                                      (IF hit THEN <<"close">> ELSE <<>>)]]

\* Fail that sends the call back to get_socket for another attempt
FailRetries(t, kind, msg, cs, newops) ==
    LET closes == kind # "refused"
        hit == closes /\ CloseTargets(pool, ctx[t].port) # {}
    IN /\ pool' = IF closes THEN PoolAfterClose(pool, ctx[t].port) ELSE pool
       /\ conns' = IF closes THEN ConnsAfterClose(cs, pool, ctx[t].port) ELSE cs
       /\ ctx' = [ctx EXCEPT ![t] =
                    [@ EXCEPT !.pc = "acquire", !.sock = 0, !.response = <<>>,
                              !.ops = AddOps(@, newops) \o
                                      (IF hit THEN <<"close">> ELSE <<>>)]]

\* the except clauses of send_command: the response returned for an
\* exception of the given kind, after close_connection(port) where the
\* clause calls it.  cs is conns as the failing operation left it.
Fail(t, kind, msg, cs, newops) ==
    LET closes == kind # "refused"
        hit == closes /\ CloseTargets(pool, ctx[t].port) # {}
    IN /\ pool' = IF closes THEN PoolAfterClose(pool, ctx[t].port) ELSE pool
       /\ conns' = IF closes THEN ConnsAfterClose(cs, pool, ctx[t].port) ELSE cs
       /\ ctx' = [ctx EXCEPT ![t] =
                    [@ EXCEPT !.pc = "done",
                              !.ret = Returned(ErrorResponse(msg)),
                              !.ops = AddOps(@, newops) \o
                                      (IF hit THEN <<"close">> ELSE <<>>)]]

\* Acquire that closes a dead pooled socket and leaves its pool entry
AcquireKeepsDead(t) ==
    /\ ctx[t].pc = "acquire"
    /\ LET key == Key(ctx[t].port) IN
       IF key \in DOMAIN pool
       THEN LET c == pool[key] IN
            IF IsAlive(conns[c])
            THEN /\ conns' = [conns EXCEPT ![c].timeout = ctx[t].timeout]
                 /\ ctx' = [ctx EXCEPT ![t] =
                              [@ EXCEPT !.pc = "send", !.sock = c,
                                        !.pend = conns[c].inbuf,
                                        !.ops = @ \o <<"peek">>]]
                 /\ UNCHANGED pool
            ELSE /\ conns' = [conns EXCEPT ![c].closed = @ + 1]
                 /\ pool' = pool
                 /\ ctx' = [ctx EXCEPT ![t] =
                              [@ EXCEPT !.pc = "connect",
                                        !.ops = @ \o <<"peek", "close">>]]
       ELSE /\ ctx' = [ctx EXCEPT ![t].pc = "connect"]
            /\ UNCHANGED <<conns, pool>>
    /\ UNCHANGED <<files, listening, ncalls, ncloses, nfaults>>

\* get_socket, the reuse branch: the key is looked up and the pooled
\* socket is validated; a dead one is closed and deleted
Acquire(t) ==
    /\ ctx[t].pc = "acquire"
    /\ LET key == Key(ctx[t].port) IN
       IF key \in DOMAIN pool
       THEN LET c == pool[key] IN
            IF IsAlive(conns[c])
            THEN /\ conns' = [conns EXCEPT ![c].timeout = ctx[t].timeout]
                 /\ ctx' = [ctx EXCEPT ![t] =
                              [@ EXCEPT !.pc = "send", !.sock = c,
                                        !.pend = conns[c].inbuf,
                                        !.ops = @ \o <<"peek">>]]
                 /\ UNCHANGED pool
            ELSE /\ conns' = [conns EXCEPT ![c].closed = @ + 1]
                 /\ pool' = [k \in DOMAIN pool \ {key} |-> pool[k]]
                 /\ ctx' = [ctx EXCEPT ![t] =
                              [@ EXCEPT !.pc = "connect",
                                        !.ops = @ \o <<"peek", "close">>]]
       ELSE /\ ctx' = [ctx EXCEPT ![t].pc = "connect"]
            /\ UNCHANGED <<conns, pool>>
    /\ UNCHANGED <<files, listening, ncalls, ncloses, nfaults>>

\* Connect that closes the socket it finds under the key before storing
ConnectClosesOld(t) ==
    /\ ctx[t].pc = "connect"
    /\ LET p == ctx[t].port IN
       IF p.ty # "int"
       THEN Fail(t, "other", "TypeError", conns, <<>>)
       ELSE IF ctx[t].timeout = 0
            THEN Fail(t, "other", "Operation now in progress", conns, <<"connect">>)
       ELSE IF p.n \notin listening
            THEN Fail(t, "refused", "Cannot connect to Unity. Is Unity running?",
                      conns, <<"connect">>)
            ELSE /\ conns' = Append(ConnsAfterClose(conns, pool, p),
                                    NewConn(p.n, ctx[t].timeout))
                 /\ pool' = (Key(p) :> (Len(conns) + 1)) @@ pool
                 /\ ctx' = [ctx EXCEPT ![t] =
                              [@ EXCEPT !.pc = "send", !.sock = Len(conns) + 1,
                                        !.ops = @ \o <<"connect">>]]
    /\ UNCHANGED <<files, listening, ncalls, ncloses, nfaults>>

\* get_socket, the create branch: socket(), connect(), store in the pool
Connect(t) ==
    /\ ctx[t].pc = "connect"
    /\ LET p == ctx[t].port IN
       IF p.ty # "int"
       THEN Fail(t, "other", "TypeError", conns, <<>>)
       ELSE IF ctx[t].timeout = 0
            \* connect() on a non-blocking socket: BlockingIOError
            THEN Fail(t, "other", "Operation now in progress", conns, <<"connect">>)
       ELSE IF p.n \notin listening
            THEN Fail(t, "refused", "Cannot connect to Unity. Is Unity running?",
                      conns, <<"connect">>)
            ELSE /\ conns' = Append(conns, NewConn(p.n, ctx[t].timeout))
                 /\ pool' = (Key(p) :> (Len(conns) + 1)) @@ pool
                 /\ ctx' = [ctx EXCEPT ![t] =
                              [@ EXCEPT !.pc = "send", !.sock = Len(conns) + 1,
                                        !.ops = @ \o <<"connect">>]]
    /\ UNCHANGED <<files, listening, ncalls, ncloses, nfaults>>

\* connect() gets no answer within the timeout: socket.timeout
ConnectTimeout(t) ==
    /\ ctx[t].pc = "connect"
    /\ ctx[t].port.ty = "int"
    /\ ctx[t].timeout # 0
    /\ nfaults < MaxFaults
    /\ nfaults' = nfaults + 1
    /\ Fail(t, "timeout", "Connection timeout", conns, <<"connect">>)
    /\ UNCHANGED <<files, listening, ncalls, ncloses>>

\* another context is between get_socket and its return with the same
\* socket object
InUseByOther(t, c) ==
    \E u \in Threads \ {t} : ctx[u].sock = c /\ ctx[u].pc \in {"send", "recv"}

\* sock.sendall(payload.encode('utf-8'))
Send(t) ==
    /\ ctx[t].pc = "send"
    /\ LET c == ctx[t].sock
           fr == Frame(ctx[t].command, ctx[t].params, ctx[t].call)
       IN \/ /\ conns[c].closed > 0
             /\ Fail(t, "other", "OSError", conns, <<"send">>)
          \/ /\ conns[c].closed = 0
             /\ conns[c].peer = "closed"
             /\ Fail(t, "other", "BrokenPipeError", conns, <<"send">>)
          \/ /\ conns[c].closed = 0
             /\ conns' = IF conns[c].peer = "open"
                         THEN [conns EXCEPT ![c].inreq = Append(@, fr),
                                            ![c].shared = @ \/ InUseByOther(t, c)]
                         ELSE conns   \* the peer is gone: the bytes are dropped
             /\ ctx' = [ctx EXCEPT ![t] =
                          [@ EXCEPT !.pc = "recv", !.response = <<>>,
                                    !.sent = Append(@, fr),
                                    !.ops = @ \o <<"send">>]]
             /\ UNCHANGED pool
    /\ UNCHANGED <<files, listening, ncalls, ncloses, nfaults>>

\* Recv that treats a reply with status "error" as a failed exchange
RecvEvictsAppError(t) ==
    /\ ctx[t].pc = "recv"
    /\ LET c == ctx[t].sock
           resp == Accumulate(ctx[t].response, conns[c].inbuf)
           cs == [conns EXCEPT ![c].inbuf = <<>>]
       IN \/ /\ conns[c].closed > 0
             /\ Fail(t, "other", "OSError", conns, <<"recv">>)
          \/ /\ conns[c].closed = 0
             /\ conns[c].inbuf = <<>>
             /\ conns[c].peer = "closed"
             /\ Fail(t, "other", "Connection closed by server", conns, <<"recv">>)
          \/ /\ conns[c].closed = 0
             /\ conns[c].inbuf # <<>>
             /\ IF ~HasNewline(resp)
                THEN /\ conns' = cs
                     /\ ctx' = [ctx EXCEPT ![t] =
                                  [@ EXCEPT !.response = resp,
                                            !.ops = AddOps(@, <<"recv">>)]]
                     /\ UNCHANGED pool
                ELSE IF ParseOk(resp) /\ ParseVal(resp).status = "error"
                     THEN Fail(t, "other", ParseVal(resp).body, cs, <<"recv">>)
                     ELSE IF ParseOk(resp)
                     THEN /\ conns' = cs
                          /\ ctx' = [ctx EXCEPT ![t] =
                                       [@ EXCEPT !.pc = "done", !.response = resp,
                                                 !.ret = Returned(ParseVal(resp)),
                                                 !.ops = AddOps(@, <<"recv">>)]]
                          /\ UNCHANGED pool
                     ELSE Fail(t, "other", "JSONDecodeError", cs, <<"recv">>)
    /\ UNCHANGED <<files, listening, ncalls, ncloses, nfaults>>

\* one pass of the read loop: chunk = sock.recv(4096), the newline test,
\* and json.loads once a newline has been seen
Recv(t) ==
    /\ ctx[t].pc = "recv"
    /\ LET c == ctx[t].sock
           resp == Accumulate(ctx[t].response, conns[c].inbuf)
           cs == [conns EXCEPT ![c].inbuf = <<>>]
       IN \/ /\ conns[c].closed > 0
             /\ Fail(t, "other", "OSError", conns, <<"recv">>)
          \/ /\ conns[c].closed = 0
             /\ conns[c].inbuf = <<>>
             /\ conns[c].peer = "closed"
             /\ Fail(t, "other", "Connection closed by server", conns, <<"recv">>)
          \/ /\ conns[c].closed = 0
             /\ conns[c].inbuf # <<>>
             /\ IF ~HasNewline(resp)
                THEN /\ conns' = cs
                     /\ ctx' = [ctx EXCEPT ![t] =
                                  [@ EXCEPT !.response = resp,
                                            !.ops = AddOps(@, <<"recv">>)]]
                     /\ UNCHANGED pool
                ELSE IF ParseOk(resp)
                     THEN /\ conns' = cs
                          /\ ctx' = [ctx EXCEPT ![t] =
                                       [@ EXCEPT !.pc = "done", !.response = resp,
                                                 !.ret = Returned(ParseVal(resp)),
                                                 !.ops = AddOps(@, <<"recv">>)]]
                          /\ UNCHANGED pool
                     ELSE Fail(t, "other", "JSONDecodeError", cs, <<"recv">>)
    /\ UNCHANGED <<files, listening, ncalls, ncloses, nfaults>>

\* one sock.recv(4096) blocks with nothing to read for the whole timeout
\* of settimeout: socket.timeout
RecvTimesOut(t) ==
    /\ ctx[t].pc = "recv"
    /\ conns[ctx[t].sock].timeout # 0
    /\ conns[ctx[t].sock].closed = 0
    /\ conns[ctx[t].sock].inbuf = <<>>
    /\ conns[ctx[t].sock].peer = "open"
    /\ Fail(t, "timeout", "Connection timeout", conns, <<"recv">>)
    /\ UNCHANGED <<files, listening, ncalls, ncloses>>

\* the same, counted as an environment event
RecvTimeout(t) ==
    /\ nfaults < MaxFaults
    /\ nfaults' = nfaults + 1
    /\ RecvTimesOut(t)

\* the same, whenever the endpoint leaves a recv without bytes
RecvDeadline(t) == RecvTimesOut(t) /\ UNCHANGED nfaults

\* recv on a socket in non-blocking mode with no bytes to read:
\* BlockingIOError, caught by "except Exception"
RecvWouldBlock(t) ==
    /\ ctx[t].pc = "recv"
    /\ conns[ctx[t].sock].timeout = 0
    /\ conns[ctx[t].sock].closed = 0
    /\ conns[ctx[t].sock].inbuf = <<>>
    /\ conns[ctx[t].sock].peer = "open"
    /\ Fail(t, "other", "Resource temporarily unavailable", conns, <<"recv">>)
    /\ UNCHANGED <<files, listening, ncalls, ncloses, nfaults>>

\* send_command hands its result to a library caller
Return(t) ==
    /\ ctx[t].pc = "done"
    /\ ctx[t].mode = "lib"
    /\ ctx' = [ctx EXCEPT ![t] = IdleCtx]
    /\ UNCHANGED <<files, listening, conns, pool, ncalls, ncloses, nfaults>>

\* close_connection(port), called by a library user between two calls;
\* NonePort is the default argument
CloseArgs == {NonePort, IntPort(0)} \cup {IntPort(p) : p \in Ports}

close_connection(t, port) ==
    /\ ctx[t].pc = "idle"
    /\ ncalls + ncloses < MaxCalls
    /\ ncloses' = ncloses + 1
    /\ pool' = PoolAfterClose(pool, port)
    /\ conns' = ConnsAfterClose(conns, pool, port)
    /\ UNCHANGED <<files, listening, ctx, ncalls, nfaults>>

-----------------------------------------------------------------------------
(* main *)

\* names given on the command line that are not keys of COMMANDS
OtherNames == {"unknown_xyz", "Rotate", "ROTATE", "PING", "Ping", "set_always_refresh"}

CliNames == DOMAIN COMMANDS \cup OtherNames

\* what parser.parse_args() makes of the command line: "ok" it returns
\* the arguments; "usage" it rejects them (a --timeout that is no integer,
\* an unknown option) and exits with status 2; "help" it prints the help
\* for -h and exits with status 0
ParseOutcomes == {"ok", "usage", "help"}

\* main() up to the call of send_command, in a fresh process: parse_args,
\* the alias lookup and json.loads(args.params); paramsOk tells whether
\* --params is valid JSON
MainStart(t, name, parsed, paramsOk) ==
    /\ ctx[t].pc = "idle"
    /\ ncalls = 0
    /\ ncloses = 0
    /\ ncalls' = ncalls + 1
    /\ ctx' = [ctx EXCEPT ![t] =
                 IF parsed # "ok"
                 THEN [IdleCtx EXCEPT !.pc = "exited", !.mode = "cli",
                                      !.parsed = parsed,
                                      !.exit = IF parsed = "help" THEN 0 ELSE 2]
                 ELSE IF paramsOk
                 THEN [IdleCtx EXCEPT !.pc = "discover", !.mode = "cli", !.argv = name,
                                      !.parsed = parsed,
                                      !.command = Resolve(name), !.params = "{}",
                                      !.timeout = 30, !.call = ncalls + 1,
                                      !.f0 = nfaults, !.c0 = Len(conns)]
                 ELSE [IdleCtx EXCEPT !.pc = "exited", !.mode = "cli", !.argv = name,
                                      !.parsed = parsed,
                                      !.command = Resolve(name),
                                      !.ret = Returned(ErrorResponse("Invalid JSON params")),
                                      !.exit = 1]]
    /\ UNCHANGED <<files, listening, conns, pool, ncloses, nfaults>>

\* ExitCode that takes every reply of the endpoint for a success
ExitCodeAnyReply(r) ==
    IF r.raised \/ ~r.val.obj THEN 1
    ELSE IF r.val.re # 0 THEN 0 ELSE 1

\* sys.exit(0 if result.get('status') == 'success' else 1); an exception
\* that reaches the top level ends the process with status 1
ExitCode(r) ==
    IF r.raised \/ ~r.val.obj THEN 1
    ELSE IF r.val.status = "success" THEN 0 ELSE 1

MainExit(t) ==
    /\ ctx[t].pc = "done"
    /\ ctx[t].mode = "cli"
    /\ ctx' = [ctx EXCEPT ![t] = [@ EXCEPT !.pc = "exited",
                                         !.exit = ExitCode(ctx[t].ret)]]
    /\ UNCHANGED <<files, listening, conns, pool, ncalls, ncloses, nfaults>>

-----------------------------------------------------------------------------
(* The endpoint and the status directory *)

\* reply statuses: "success" and "error" are objects with that status,
\* "nostatus" an object without the field, "nonobj" a JSON value that is
\* no object
ReplyKinds == {"success", "error", "nostatus", "nonobj"}

Reply(kind, req) ==
    [obj |-> kind # "nonobj",
     status |-> IF kind \in {"success", "error"} THEN kind ELSE "",
     body |-> req.params,
     re |-> req.call]

Open(c) == conns[c].closed = 0 /\ conns[c].peer = "open"

Spend(n) == /\ nfaults + n <= MaxFaults
            /\ nfaults' = nfaults + n

\* the endpoint writes the JSON text of its reply to the oldest request;
\* the newline follows in EndpointSendNL
EndpointSendValue(c, kind) ==
    /\ Open(c)
    /\ conns[c].inreq # <<>>
    /\ ~conns[c].owesNL
    /\ Spend(IF kind = "success" THEN 0 ELSE 1)
    /\ conns' = [conns EXCEPT ![c].inreq = Tail(@),
                              ![c].inbuf = Append(@, JsonTok(Reply(kind, Head(conns[c].inreq)))),
                              ![c].owesNL = TRUE]
    /\ UNCHANGED <<files, listening, pool, ctx, ncalls, ncloses>>

\* the endpoint answers the oldest request with bytes that are not JSON
EndpointSendJunk(c) ==
    /\ Open(c)
    /\ conns[c].inreq # <<>>
    /\ ~conns[c].owesNL
    /\ Spend(1)
    /\ conns' = [conns EXCEPT ![c].inreq = Tail(@),
                              ![c].inbuf = Append(@, JunkTok),
                              ![c].owesNL = TRUE]
    /\ UNCHANGED <<files, listening, pool, ctx, ncalls, ncloses>>

\* the newline that ends the reply
EndpointSendNL(c) ==
    /\ Open(c)
    /\ conns[c].owesNL
    /\ conns' = [conns EXCEPT ![c].inbuf = Append(@, NlTok), ![c].owesNL = FALSE]
    /\ UNCHANGED <<files, listening, pool, ctx, ncalls, ncloses, nfaults>>

\* a frame nobody asked for
EndpointSendExtra(c) ==
    /\ Open(c)
    /\ ~conns[c].owesNL
    /\ Spend(1)
    /\ conns' = [conns EXCEPT ![c].inbuf =
                    @ \o <<JsonTok([obj |-> TRUE, status |-> "success",
                                    body |-> "extra", re |-> 0]), NlTok>>]
    /\ UNCHANGED <<files, listening, pool, ctx, ncalls, ncloses>>

\* the endpoint writes bytes without a newline to a caller that is in its
\* read loop, before the caller's recv times out
EndpointDrip(c) ==
    /\ Open(c)
    /\ conns[c].inbuf = <<>>
    /\ \E t \in Threads : ctx[t].pc = "recv" /\ ctx[t].sock = c
    /\ conns' = [conns EXCEPT ![c].inbuf = <<JunkTok>>]
    /\ UNCHANGED <<files, listening, pool, ctx, ncalls, ncloses, nfaults>>

\* the endpoint closes its end of a connection
EndpointClose(c) ==
    /\ Open(c)
    /\ Spend(1)
    /\ conns' = [conns EXCEPT ![c].peer = "closed"]
    /\ UNCHANGED <<files, listening, pool, ctx, ncalls, ncloses>>

\* the endpoint stops or starts accepting connections on a port.  Only
\* connect() reads this, so a change at any earlier moment is the same as
\* a change just before a connect
EndpointListen(p) ==
    /\ \E t \in Threads : ctx[t].pc = "connect"
    /\ Spend(1)
    /\ listening' = IF p \in listening THEN listening \ {p} ELSE listening \cup {p}
    /\ UNCHANGED <<files, conns, pool, ctx, ncalls, ncloses>>

\* The directory is read by find_unity_port only, so a change at any
\* earlier moment is the same as a change just before a scan
Scanning == \E t \in Threads : ctx[t].pc = "discover"

\* the newest modification time in the directory
RECURSIVE MaxMtimeOf(_)
MaxMtimeOf(fs) ==
    IF fs = <<>> THEN 0
    ELSE IF Head(fs).mtime > MaxMtimeOf(Tail(fs)) THEN Head(fs).mtime
         ELSE MaxMtimeOf(Tail(fs))

\* the endpoint publishes its status file, {"port": p}, newer than every
\* file already there, at some place of the glob order
PublishStatus(p, i) ==
    /\ Scanning
    /\ Len(files) < MaxFiles
    /\ MaxMtimeOf(files) < MaxMtime
    /\ i \in 0..Len(files)
    /\ Spend(1)
    /\ files' = SubSeq(files, 1, i)
                  \o <<StatusFile(MaxMtimeOf(files) + 1, "obj", IntPort(p))>>
                  \o SubSeq(files, i + 1, Len(files))
    /\ UNCHANGED <<listening, conns, pool, ctx, ncalls, ncloses>>

\* a status file is removed
RemoveStatus(i) ==
    /\ Scanning
    /\ i \in 1..Len(files)
    /\ Spend(1)
    /\ files' = SubSeq(files, 1, i - 1) \o SubSeq(files, i + 1, Len(files))
    /\ UNCHANGED <<listening, conns, pool, ctx, ncalls, ncloses>>

Endpoint ==
    \/ \E c \in DOMAIN conns, kind \in ReplyKinds : EndpointSendValue(c, kind)
    \/ \E c \in DOMAIN conns : EndpointSendJunk(c)
    \/ \E c \in DOMAIN conns : EndpointSendNL(c)
    \/ \E c \in DOMAIN conns : EndpointSendExtra(c)
    \/ \E c \in DOMAIN conns : EndpointClose(c)
    \/ \E p \in Ports : EndpointListen(p)

Directory ==
    \/ \E p \in Ports, i \in 0..MaxFiles : PublishStatus(p, i)
    \/ \E i \in 1..MaxFiles : RemoveStatus(i)

-----------------------------------------------------------------------------
(* Specifications *)

\* the steps of one send_command call
Exchange(t) ==
    \/ Discover(t)
    \/ Acquire(t)
    \/ Connect(t)
    \/ ConnectTimeout(t)
    \/ Send(t)
    \/ Recv(t)
    \/ RecvTimeout(t)

Library(t) ==
    \/ \E in \in LibCalls : Call(t, in)
    \/ \E p \in CloseArgs : close_connection(t, p)
    \/ Return(t)

\* the module used as a library from one execution context
Next == Library(1) \/ Exchange(1) \/ Endpoint \/ Directory

Spec == Init /\ [][Next]_vars

\* the command-line client: main() runs once in a fresh process, or the
\* module is used as a library; the status directory does not change
Main(t) ==
    \/ \E name \in CliNames, parsed \in ParseOutcomes, paramsOk \in BOOLEAN :
          MainStart(t, name, parsed, paramsOk)
    \/ MainExit(t)

NextCli == Main(1) \/ Library(1) \/ Exchange(1) \/ Endpoint

SpecCli == Init /\ [][NextCli]_vars

\* discovery alone, over every status directory of at most MaxFiles files
Directories == UNION {[1..n -> FileSet] : n \in 0..MaxFiles}

InitDisc ==
    /\ files \in Directories
    /\ listening = {8080}
    /\ conns = <<>>
    /\ pool = EmptyPool
    /\ ctx = [t \in Threads |-> IdleCtx]
    /\ ncalls = 0
    /\ ncloses = 0
    /\ nfaults = 0

NextDisc == (\E in \in LibCalls : Call(1, in)) \/ Discover(1) \/ Return(1)

SpecDisc == InitDisc /\ [][NextDisc]_vars

\* send_command called with every kind of params value, against an
\* endpoint that answers each request with one success frame
NextParams ==
    \/ \E in \in ParamCalls : Call(1, in)
    \/ Return(1)
    \/ Discover(1)
    \/ Acquire(1)
    \/ Connect(1)
    \/ Send(1)
    \/ Recv(1)
    \/ \E c \in DOMAIN conns : EndpointSendValue(c, "success")
    \/ \E c \in DOMAIN conns : EndpointSendNL(c)

SpecParams == Init /\ [][NextParams]_vars

\* send_command called with command names and params that hold the
\* characters json.dumps escapes
NextFrame ==
    \/ \E in \in FrameCalls : Call(1, in)
    \/ Return(1)
    \/ Discover(1)
    \/ Acquire(1)
    \/ Connect(1)
    \/ Send(1)
    \/ Recv(1)
    \/ \E c \in DOMAIN conns : EndpointSendValue(c, "success")
    \/ \E c \in DOMAIN conns : EndpointSendNL(c)

SpecFrame == Init /\ [][NextFrame]_vars

\* the module used from one context against an endpoint that writes one
\* reply per request and nothing else: any kind of reply, at any time, over
\* connections it may close
EndpointReplies ==
    \/ \E c \in DOMAIN conns, kind \in ReplyKinds : EndpointSendValue(c, kind)
    \/ \E c \in DOMAIN conns : EndpointSendJunk(c)
    \/ \E c \in DOMAIN conns : EndpointSendNL(c)
    \/ \E c \in DOMAIN conns : EndpointClose(c)
    \/ \E p \in Ports : EndpointListen(p)

NextSerial == Library(1) \/ Exchange(1) \/ EndpointReplies \/ Directory

SpecSerial == Init /\ [][NextSerial]_vars

\* two execution contexts call into the module with no serialization
\* between them; the endpoint writes one reply per request
NextConc ==
    \/ \E t \in Threads :
          \/ Call(t, <<"ping", "None", 30>>)
          \/ Discover(t)
          \/ Acquire(t)
          \/ Connect(t)
          \/ Send(t)
          \/ Recv(t)
          \/ RecvTimeout(t)
          \/ Return(t)
    \/ \E c \in DOMAIN conns : EndpointSendValue(c, "success")
    \/ \E c \in DOMAIN conns : EndpointSendNL(c)

SpecConc == Init /\ [][NextConc]_vars

\* calls that differ in their timeout, 0 included
ModeCalls == {<<"ping", "None", tm>> : tm \in {30, 5, 0}}

\* one context calling with several timeouts, against an endpoint that
\* answers with success or leaves the request unanswered
NextMode ==
    \/ \E in \in ModeCalls : Call(1, in)
    \/ Return(1)
    \/ Discover(1)
    \/ Acquire(1)
    \/ Connect(1)
    \/ Send(1)
    \/ Recv(1)
    \/ RecvTimeout(1)
    \/ RecvWouldBlock(1)
    \/ \E c \in DOMAIN conns : EndpointSendValue(c, "success")
    \/ \E c \in DOMAIN conns : EndpointSendNL(c)

SpecMode == Init /\ [][NextMode]_vars

\* one context against an endpoint that answers every request with one
\* frame, reporting success or an application failure
NextApp ==
    \/ \E in \in LibCalls : Call(1, in)
    \/ Return(1)
    \/ Discover(1)
    \/ Acquire(1)
    \/ Connect(1)
    \/ Send(1)
    \/ Recv(1)
    \/ \E c \in DOMAIN conns, kind \in {"success", "error"} : EndpointSendValue(c, kind)
    \/ \E c \in DOMAIN conns : EndpointSendNL(c)

SpecApp == Init /\ [][NextApp]_vars

\* one context, and an endpoint that answers, stays silent, closes, or
\* keeps writing bytes without a newline.  Every step of the caller is
\* taken once it stays possible: a recv with bytes to read returns them,
\* a recv left without bytes for the whole timeout raises socket.timeout.
NextLive ==
    \/ Call(1, <<"ping", "None", 30>>)
    \/ Discover(1)
    \/ Acquire(1)
    \/ Connect(1)
    \/ Send(1)
    \/ Recv(1)
    \/ RecvDeadline(1)
    \/ Return(1)
    \/ \E c \in DOMAIN conns : EndpointSendValue(c, "success")
    \/ \E c \in DOMAIN conns : EndpointSendNL(c)
    \/ \E c \in DOMAIN conns : EndpointClose(c)
    \/ \E c \in DOMAIN conns : EndpointDrip(c)

SpecLive ==
    /\ Init /\ [][NextLive]_vars
    /\ WF_vars(Discover(1)) /\ WF_vars(Acquire(1)) /\ WF_vars(Connect(1))
    /\ WF_vars(Send(1)) /\ WF_vars(Recv(1)) /\ WF_vars(RecvDeadline(1))

-----------------------------------------------------------------------------
(* Properties *)

Range(f) == {f[k] : k \in DOMAIN f}

Count(s, x) == Cardinality({i \in DOMAIN s : s[i] = x})

\* the directory holds the one status file of an endpoint on port 8080
ValidDir == files = <<StatusFile(1, "obj", IntPort(8080))>>

\* no environment event has happened and the user closed nothing
Quiet == nfaults = 0 /\ ncloses = 0

NoFilesMsg == "No Unity port files found. Is Unity running with Bridge Lite?"

\* the call of t ended by returning the error response the client builds
\* for msg
ReturnedError(t, msg) ==
    /\ ctx[t].pc = "done"
    /\ ~ctx[t].ret.raised
    /\ ctx[t].ret.val = ErrorResponse(msg)

\* the call of t ended by returning the endpoint's success reply to its
\* own request
ReturnedOwnReply(t) ==
    /\ ctx[t].pc = "done"
    /\ ~ctx[t].ret.raised
    /\ ctx[t].ret.val =
          Reply("success", Frame(ctx[t].command, ctx[t].params, ctx[t].call))

\* C1: with the endpoint on one port, keeping its connections open and
\* answering every request with one newline-terminated frame, every
\* send_command call returns success and all calls share one connection:
\* the first call connects, every later call passes the liveness test and
\* reuses the pooled socket without connecting.
C1_SequentialCallsReuse ==
    (Quiet /\ ValidDir) =>
        /\ Len(conns) <= 1
        /\ \A t \in Threads :
              ctx[t].pc = "done" =>
                  /\ ReturnedOwnReply(t)
                  /\ Len(conns) = 1
                  /\ Count(ctx[t].ops, "connect") = (IF ctx[t].call = 1 THEN 1 ELSE 0)
                  /\ Count(ctx[t].ops, "peek") = (IF ctx[t].call = 1 THEN 0 ELSE 1)
                  /\ Count(ctx[t].ops, "close") = 0

C1_Witness ==
    \E t \in Threads :
        /\ Quiet /\ ValidDir
        /\ ctx[t].pc = "done" /\ ctx[t].call = 3
        /\ ReturnedOwnReply(t)
        /\ Len(conns) = 1

\* C2: a pooled connection that the endpoint has closed, with nothing left
\* to read on it, is closed and deleted by the liveness test of the next
\* call to that endpoint; when the endpoint accepts and answers, that call
\* opens exactly one new connection and returns the endpoint's reply, not
\* an error.
C2_Discard ==
    \A t \in Threads :
        LET key == Key(ctx[t].port) IN
        (/\ ctx[t].pc = "acquire" /\ ctx'[t].pc # "acquire"
         /\ key \in DOMAIN pool
         /\ conns[pool[key]].closed = 0
         /\ conns[pool[key]].peer = "closed"
         /\ conns[pool[key]].inbuf = <<>>)
        => /\ ctx'[t].pc = "connect"
           /\ key \notin DOMAIN pool'
           /\ conns'[pool[key]].closed = 1

C2_Reconnected ==
    \A t \in Threads :
        (/\ ctx[t].pc = "done"
         /\ Len(ctx[t].ops) >= 2 /\ SubSeq(ctx[t].ops, 1, 2) = <<"peek", "close">>
         /\ nfaults = ctx[t].f0
         /\ ctx[t].port.ty = "int" /\ ctx[t].port.n \in listening)
        => /\ ReturnedOwnReply(t)
           /\ Len(conns) = ctx[t].c0 + 1
           /\ Count(ctx[t].ops, "connect") = 1
           /\ pool[Key(ctx[t].port)] = Len(conns)

C2_StaleConnectionReplaced == [][C2_Discard]_vars /\ []C2_Reconnected

C2_Witness ==
    \E t \in Threads :
        /\ ctx[t].pc = "done" /\ ctx[t].call = 2
        /\ Len(ctx[t].ops) >= 3
        /\ SubSeq(ctx[t].ops, 1, 3) = <<"peek", "close", "connect">>
        /\ ReturnedOwnReply(t)
        /\ Len(conns) = 2
        /\ conns[1].peer = "closed" /\ conns[1].closed = 1

\* C3: when send_command returns the error of a transport failure (read
\* timeout, peer closed before a newline, send failure, closed socket,
\* malformed response), the pool has no entry for the endpoint key, and
\* the connection the call used is closed and is not in the pool.
TransportErrors ==
    {"Connection timeout", "Connection closed by server", "BrokenPipeError",
     "OSError", "JSONDecodeError"}

C3_FailedConnectionEvicted ==
    \A t \in Threads :
        (\E msg \in TransportErrors : ReturnedError(t, msg)) =>
            /\ Key(ctx[t].port) \notin DOMAIN pool
            /\ ctx[t].sock # 0 =>
                  /\ conns[ctx[t].sock].closed >= 1
                  /\ ctx[t].sock \notin Range(pool)

C3_Witness ==
    \E t \in Threads :
        /\ ReturnedError(t, "JSONDecodeError")
        /\ ctx[t].call = 2 /\ ctx[t].ops[1] = "peek"
        /\ Count(ctx[t].ops, "connect") = 0
        /\ conns[ctx[t].sock].closed = 1

\* C4: when reply bytes without a newline were read and nothing more came
\* before the timeout, send_command returns the timeout error with the
\* connection closed once and out of the pool; the pool never holds a
\* closed connection and no call sends or reads on one, so the bytes left
\* on the timed-out connection reach no later call.
C4_PartialFrameTimeout ==
    /\ \A t \in Threads :
          (ReturnedError(t, "Connection timeout") /\ ctx[t].response # <<>>) =>
              /\ ~HasNewline(ctx[t].response)
              /\ conns[ctx[t].sock].closed = 1
              /\ ctx[t].sock \notin Range(pool)
              /\ Key(ctx[t].port) \notin DOMAIN pool
    /\ \A k \in DOMAIN pool : conns[pool[k]].closed = 0
    /\ \A t \in Threads :
          ctx[t].pc \in {"send", "recv"} => conns[ctx[t].sock].closed = 0

\* the call after the timed-out one, answered over a second connection;
\* the first still waits for its newline, its partial frame read and dropped
C4_Witness ==
    \E t \in Threads :
        /\ ctx[t].pc = "done" /\ ctx[t].call = 2 /\ ncloses = 0
        /\ ReturnedOwnReply(t)
        /\ ctx[t].ops[1] = "connect"
        /\ Len(conns) = 2
        /\ conns[1].closed = 1 /\ conns[1].peer = "open"
        /\ conns[1].owesNL /\ conns[1].inbuf = <<>>

\* C5: send_command never raises: every call ends by returning a value.
C5_NeverRaises ==
    \A t \in Threads : ctx[t].pc = "done" => ~ctx[t].ret.raised

\* C6: every value send_command returns is an object tagged with status
\* "success" or "error"; it is "success" only for a reply that is an
\* object with status "success".
C6_StatusTagged ==
    \A t \in Threads :
        (ctx[t].pc = "done" /\ ~ctx[t].ret.raised) =>
            /\ ctx[t].ret.val.obj
            /\ ctx[t].ret.val.status \in {"success", "error"}

\* C7: for every directory whose files stay in place during the scan,
\* discovery returns the port of the most recently modified file that
\* parses as JSON and holds an integer port, whatever later-modified
\* invalid files there are, and it returns no port that is not such a
\* file's.
ValidFile(f) == f.kind = "obj" /\ f.port.ty = "int" /\ f.port.n # 0

NewestValidPorts(fs) ==
    {fs[i].port : i \in {j \in DOMAIN fs :
        /\ ValidFile(fs[j])
        /\ \A k \in DOMAIN fs : ValidFile(fs[k]) => fs[k].mtime <= fs[j].mtime}}

Stable(fs) == \A i \in DOMAIN fs : fs[i].kind \notin {"vanishStat", "vanishOpen"}

C7_NewestValidFileWins ==
    [][\A t \in Threads :
         (ctx[t].pc = "discover" /\ ctx'[t].pc # "discover" /\ Stable(files))
         => /\ NewestValidPorts(files) # {} => ctx'[t].pc = "acquire"
            /\ ctx'[t].pc = "acquire" =>
                  ctx'[t].port \in NewestValidPorts(files)]_vars

\* C8: with no status file, send_command returns its error response
\* having done no socket operation and leaves the pool and every
\* connection as they were.
C8_NoFileNoSocket ==
    [][\A t \in Threads :
         (ctx[t].pc = "discover" /\ ctx'[t].pc # "discover" /\ files = <<>>)
         => /\ ReturnedError(t, NoFilesMsg)'
            /\ ctx'[t].ops = <<>> /\ ctx'[t].sent = <<>> /\ ctx'[t].sock = 0
            /\ pool' = pool
            /\ conns' = conns]_vars

C8_Witness ==
    \E t \in Threads :
        /\ ReturnedError(t, NoFilesMsg)
        /\ ctx[t].ops = <<>>
        /\ DOMAIN pool # {}

PureAliases == {k \in DOMAIN COMMANDS : COMMANDS[k] # k}

C10_ExactMatchLookup ==
    /\ \E a, b \in DOMAIN COMMANDS : a # b /\ COMMANDS[a] = COMMANDS[b]
    /\ \A t \in Threads :
          ctx[t].mode = "cli" =>
              /\ ctx[t].argv = "rotate" => ctx[t].command = "start_rotation"
              /\ ctx[t].argv = "ping" => ctx[t].command = "ping"
              /\ ctx[t].argv \in DOMAIN COMMANDS =>
                    ctx[t].command = COMMANDS[ctx[t].argv]
              /\ ctx[t].argv \in OtherNames => ctx[t].command = ctx[t].argv

C10_Witness ==
    \E t \in Threads :
        /\ ctx[t].mode = "cli"
        /\ ctx[t].argv = "Rotate" /\ ctx[t].command = "Rotate"
        /\ Lower(ctx[t].argv) \in DOMAIN COMMANDS

\* C11: for every params value passed to send_command, falsy values
\* included, the params field of the frame the endpoint receives equals
\* the value passed (None, the default argument, stands for no params and
\* is left out).
C11_ParamsRoundTrip ==
    \A t \in Threads : \A c \in DOMAIN conns : \A i \in DOMAIN conns[c].inreq :
        (conns[c].inreq[i].call = ctx[t].call /\ ctx[t].params # "None")
            => conns[c].inreq[i].params = ctx[t].params

\* C12: in use from one context the pool holds one connection per key,
\* no connection under two keys, each connection under the key of the port
\* it was opened to; and the socket a call sends and reads on is connected
\* to the port the call discovered.
C12_OneConnectionPerKey ==
    /\ \A k \in DOMAIN pool :
          /\ pool[k] \in DOMAIN conns
          /\ k = "127.0.0.1:" \o ToString(conns[pool[k]].port)
    /\ \A k1, k2 \in DOMAIN pool : pool[k1] = pool[k2] => k1 = k2
    /\ \A t \in Threads :
          ctx[t].pc \in {"send", "recv"} =>
              PortText(ctx[t].port) = ToString(conns[ctx[t].sock].port)

\* two endpoints, two keys, both connections open; the second call was
\* answered over the connection to 8081
C12_Witness ==
    \E t \in Threads :
        /\ DOMAIN pool = {"127.0.0.1:8080", "127.0.0.1:8081"}
        /\ \A k \in DOMAIN pool : conns[pool[k]].closed = 0
        /\ ReturnedOwnReply(t) /\ ctx[t].call = 2
        /\ conns[ctx[t].sock].port = 8081

\* C13: in use from one context a connection is in the pool exactly while
\* close was never called on it, a connection out of the pool had close
\* called once, and every step that takes a connection out of the pool
\* (liveness validation, eviction after a failure, close_connection)
\* calls close on it once in that step.
C13_InPoolOrClosedOnce ==
    \A c \in DOMAIN conns :
        conns[c].closed = (IF c \in Range(pool) THEN 0 ELSE 1)

C13_LeavesClosed ==
    \A k \in DOMAIN pool :
        (k \notin DOMAIN pool' \/ pool'[k] # pool[k])
            => conns'[pool[k]].closed = conns[pool[k]].closed + 1

C13_ClosedExactlyOnce == []C13_InPoolOrClosedOnce /\ [][C13_LeavesClosed]_vars

\* the first connection was evicted by a failed call, the second was found
\* dead by the liveness test of the third call, which opened the third
C13_Witness ==
    \E t \in Threads :
        /\ ctx[t].pc = "done" /\ ctx[t].call = 3
        /\ Len(ctx[t].ops) >= 3
        /\ SubSeq(ctx[t].ops, 1, 3) = <<"peek", "close", "connect">>
        /\ Len(conns) = 3
        /\ conns[1].closed = 1 /\ conns[2].closed = 1 /\ conns[3].closed = 0
        /\ Range(pool) = {3}

\* C16: every call discovers anew: whenever the directory has a valid
\* file, the port of a call past discovery is the port of the newest valid
\* file as the directory is during that call, and the socket the call
\* sends and reads on is connected to that port, whatever connections to
\* other ports the pool holds.
C16_DiscoveryEveryCall ==
    \A t \in Threads :
        (ctx[t].pc \in {"acquire", "connect", "send", "recv"}
            /\ NewestValidPorts(files) # {})
        => /\ ctx[t].port \in NewestValidPorts(files)
           /\ ctx[t].pc \in {"send", "recv"} =>
                 conns[ctx[t].sock].port = ctx[t].port.n

\* port 8081 was published after a call had used 8080: the next call was
\* answered over a new connection to 8081 while the one to 8080 stays
\* pooled and open
C16_Witness ==
    \E t \in Threads :
        /\ ReturnedOwnReply(t) /\ ctx[t].call >= 2
        /\ Len(files) = 2
        /\ NewestValidPorts(files) = {IntPort(8081)}
        /\ conns[ctx[t].sock].port = 8081
        /\ ctx[t].ops = <<"connect", "send", "recv">>
        /\ "127.0.0.1:8080" \in DOMAIN pool
        /\ conns[pool["127.0.0.1:8080"]].closed = 0

\* C14: from one context, against an endpoint that writes one reply per
\* request, however late, every call that returns a reply returns the
\* reply to the request it wrote itself.
C14_OwnReply ==
    \A t \in Threads :
        (ctx[t].pc = "done" /\ ~ctx[t].ret.raised /\ ctx[t].ret.val.re # 0)
        => /\ ctx[t].ret.val.re = ctx[t].call
           /\ \E kind \in ReplyKinds :
                 ctx[t].ret.val =
                    Reply(kind, Frame(ctx[t].command, ctx[t].params, ctx[t].call))

\* the first call timed out with its request unanswered; the second call
\* got the reply to its own request over a second connection
C14_Witness ==
    \E t \in Threads :
        /\ ReturnedOwnReply(t) /\ ctx[t].call = 2
        /\ ctx[t].ops = <<"connect", "send", "recv">>
        /\ Len(conns) = 2
        /\ conns[1].closed = 1 /\ conns[1].peer = "open"
        /\ Len(conns[1].inreq) = 1 /\ conns[1].inreq[1].call = 1

\* C15: two contexts calling concurrently for one endpoint can be handed
\* the same pooled socket, and one of them is then returned the reply to
\* the other's request (the witness); against an endpoint that writes one
\* reply per request, a call is returned the reply to another request
\* only over a socket that one context wrote on while the other was using
\* it.
C15_MisattributionBySharing ==
    \A t \in Threads :
        (ctx[t].pc = "done" /\ ~ctx[t].ret.raised
            /\ ctx[t].ret.val.re \notin {0, ctx[t].call})
        => conns[ctx[t].sock].shared

C15_Witness ==
    \E t, u \in Threads :
        /\ t # u
        /\ ctx[t].pc = "done" /\ ctx[u].pc = "recv"
        /\ ctx[t].sock # 0 /\ ctx[t].sock = ctx[u].sock
        /\ Key(ctx[t].port) \in DOMAIN pool
        /\ pool[Key(ctx[t].port)] = ctx[t].sock
        /\ Len(ctx[t].sent) = 1 /\ Len(ctx[u].sent) = 1
        /\ ctx[t].call # ctx[u].call
        /\ ~ctx[t].ret.raised
        /\ ctx[t].ret.val =
              Reply("success", Frame(ctx[u].command, ctx[u].params, ctx[u].call))

\* C17: every send_command call that was entered returns, whatever the
\* endpoint does after the request is written.
C17_EveryCallReturns ==
    \A t \in Threads :
        (ctx[t].pc \in {"discover", "acquire", "connect", "send", "recv"})
            ~> (ctx[t].pc = "done")

\* the response main printed has status "success"
Succeeded(r) == ~r.raised /\ r.val.obj /\ r.val.status = "success"

\* C18 as claimed: main exits with code 0 exactly when the response has
\* status "success", and with code 1 in every other case.
C18_ExitZeroIffSuccess ==
    \A t \in Threads :
        ctx[t].pc = "exited" =>
            ctx[t].exit = (IF Succeeded(ctx[t].ret) THEN 0 ELSE 1)

\* C18, amended: once parse_args has accepted the command line, main
\* exits with code 0 exactly when the response has status "success" and
\* with code 1 otherwise (discovery, connect and transport failures, an
\* error reply, a reply without a readable status, an escaping exception,
\* invalid --params); a rejected command line exits with code 2 and -h
\* with code 0, both without a response.
C18_ExitCodeAfterParsing ==
    \A t \in Threads :
        ctx[t].pc = "exited" =>
            /\ ctx[t].parsed = "ok" =>
                  ctx[t].exit = (IF Succeeded(ctx[t].ret) THEN 0 ELSE 1)
            /\ ctx[t].parsed = "usage" => (ctx[t].exit = 2 /\ ctx[t].ret = NoRet)
            /\ ctx[t].parsed = "help" => (ctx[t].exit = 0 /\ ctx[t].ret = NoRet)
            /\ ctx[t].ret.val.status = "error" => ctx[t].exit = 1

\* the endpoint answered with an error reply: transport success, exit 1
C18_Witness ==
    \E t \in Threads :
        /\ ctx[t].pc = "exited" /\ ctx[t].parsed = "ok"
        /\ ctx[t].ret = Returned(Reply("error",
                                       Frame(ctx[t].command, ctx[t].params, ctx[t].call)))
        /\ ctx[t].exit = 1

\* the bytes of a buffer before its first newline
RECURSIVE FirstLine(_)
FirstLine(resp) ==
    IF resp = <<>> \/ Head(resp).k = "nl" THEN <<>>
    ELSE <<Head(resp)>> \o FirstLine(Tail(resp))

\* C19: when a read leaves a newline in the accumulated buffer and the
\* bytes before the first newline are one JSON value, the call returns
\* that value, whatever follows the newline in the buffer.
C19_FirstFrameDecides ==
    [][\A t \in Threads :
         (ctx[t].pc = "recv" /\ ctx'[t].pc = "done"
            /\ conns[ctx[t].sock].closed = 0)
         => LET resp == Accumulate(ctx[t].response, conns[ctx[t].sock].inbuf)
                line == FirstLine(resp)
            IN (HasNewline(resp) /\ Len(line) = 1 /\ line[1].k = "json")
                   => ctx'[t].ret = Returned(line[1].v)]_vars

\* the call of t ended by returning the endpoint's error reply to its own
\* request
ReturnedAppError(t) ==
    /\ ctx[t].pc = "done"
    /\ ctx[t].ret =
          Returned(Reply("error", Frame(ctx[t].command, ctx[t].params, ctx[t].call)))

\* C20: a call answered with a reply of status "error" returns that reply
\* and leaves its connection open and pooled under the endpoint key,
\* having closed nothing; against an endpoint that answers every request,
\* with success or with an application failure, all calls share one
\* connection: every call after the first passes the liveness test and
\* reuses it without connecting.
C20_AppErrorKeepsConnection ==
    /\ Len(conns) <= 1
    /\ \A t \in Threads :
          /\ ReturnedAppError(t) =>
                /\ Key(ctx[t].port) \in DOMAIN pool
                /\ pool[Key(ctx[t].port)] = ctx[t].sock
                /\ conns[ctx[t].sock].closed = 0
                /\ Count(ctx[t].ops, "close") = 0
          /\ (ctx[t].pc \in {"send", "recv", "done"} /\ ctx[t].sock # 0
                 /\ ctx[t].call >= 2) =>
                /\ ctx[t].ops[1] = "peek"
                /\ Count(ctx[t].ops, "connect") = 0

\* the first call was answered with an error reply (the one event
\* counted); the second reused the connection and got its success reply
C20_Witness ==
    \E t \in Threads :
        /\ ReturnedOwnReply(t) /\ ctx[t].call = 2
        /\ nfaults = 1
        /\ ctx[t].ops = <<"peek", "send", "recv">>
        /\ Len(conns) = 1 /\ ctx[t].sock = 1

\* the call of t got a port from discovery and no socket from get_socket
ConnectFailed(t) ==
    /\ ctx[t].pc = "done"
    /\ ctx[t].port # NonePort
    /\ ctx[t].sock = 0

\* C21: a call whose connect fails (refused, timed out, rejected) returns
\* an error response the client builds, has opened no connection and
\* written nothing, and leaves the pool without an entry for its key, also
\* when the call first discarded a dead pooled connection for that key.
C21_ConnectFailureInsertsNothing ==
    \A t \in Threads :
        ConnectFailed(t) =>
            /\ ~ctx[t].ret.raised
            /\ ctx[t].ret.val.obj /\ ctx[t].ret.val.status = "error"
            /\ ctx[t].ret.val.re = 0
            /\ Key(ctx[t].port) \notin DOMAIN pool
            /\ Len(conns) = ctx[t].c0
            /\ ctx[t].sent = <<>>

\* the pooled connection was found dead and discarded, then the connect
\* was refused
C21_Witness ==
    \E t \in Threads :
        /\ ConnectFailed(t)
        /\ ReturnedError(t, "Cannot connect to Unity. Is Unity running?")
        /\ ctx[t].ops = <<"peek", "close", "connect">>
        /\ pool = EmptyPool
        /\ Len(conns) = 1 /\ conns[1].closed = 1

\* C22: every frame a call writes is the text of one JSON object with the
\* fields type and params, in that order and no other, followed by one
\* newline, which is its last byte and its only newline; a call writes at
\* most one frame, in one send operation, and the endpoint receives these
\* bytes.
WellFramed(w) ==
    /\ Len(w) >= 7
    /\ w[1] = "{\"type\": " /\ w[2] = "\""
    /\ Count(w, ", \"params\": ") = 1
    /\ w[Len(w) - 1] = "}"
    /\ w[Len(w)] = "\n"
    /\ Count(w, "\n") = 1

C22_OneFrameOneNewline ==
    /\ \A t \in Threads :
          /\ Len(ctx[t].sent) <= 1
          /\ Count(ctx[t].ops, "send") = Len(ctx[t].sent)
          /\ \A i \in DOMAIN ctx[t].sent :
                /\ WellFramed(ctx[t].sent[i].wire)
                /\ ctx[t].sent[i].wire = Payload(ctx[t].command, ctx[t].params)
    /\ \A c \in DOMAIN conns : \A i \in DOMAIN conns[c].inreq :
          WellFramed(conns[c].inreq[i].wire)

\* a frame for a command name and a params value that both hold a newline
\* character has reached the endpoint
C22_Witness ==
    \E t \in Threads : \E c \in DOMAIN conns :
        /\ ctx[t].pc = "recv"
        /\ ctx[t].command = "a\nb" /\ ctx[t].params = NewlineParams
        /\ conns[c].inreq = ctx[t].sent
        /\ Len(ctx[t].sent) = 1
        /\ Count(ctx[t].sent[1].wire, "\\n") = 2

NoValidPortMsg == "Could not read port from Unity status files"

\* C23: when the directory has status files, all staying in place, and
\* none of them holds a valid port, the call returns the no-valid-port
\* error response, which is not the no-files one, having made no
\* connection attempt.
C23_NoValidPortError ==
    [][\A t \in Threads :
         (/\ ctx[t].pc = "discover" /\ ctx'[t].pc # "discover"
          /\ files # <<>> /\ Stable(files)
          /\ \A i \in DOMAIN files : ~ValidFile(files[i]))
         => /\ NoValidPortMsg # NoFilesMsg
            /\ ReturnedError(t, NoValidPortMsg)'
            /\ ctx'[t].ops = <<>>]_vars

\* what the contract promises of close_connection(port)
CloseContract(port) ==
    IF port = NonePort
    THEN /\ pool' = EmptyPool
         /\ \A k \in DOMAIN pool :
              conns'[pool[k]].closed = conns[pool[k]].closed + 1
    ELSE /\ DOMAIN pool' = DOMAIN pool \ {Key(port)}
         /\ \A k \in DOMAIN pool' :
              pool'[k] = pool[k] /\ conns'[pool[k]] = conns[pool[k]]
         /\ Key(port) \in DOMAIN pool =>
              conns'[pool[Key(port)]].closed = conns[pool[Key(port)]].closed + 1
         /\ Key(port) \notin DOMAIN pool => pool' = pool /\ conns' = conns

\* C24: for every port value p, close_connection(p) closes and removes
\* only the pool entry keyed by p, leaving every other pooled connection
\* open and pooled, and changes nothing when p has no entry;
\* close_connection() closes every pooled connection and empties the pool.
C24_CloseOnlyThatKey ==
    [][\A t \in Threads : \A port \in CloseArgs :
         close_connection(t, port) => CloseContract(port)]_vars

\* the socket of t was taken from the pool by this call
Reused(t) ==
    /\ ctx[t].pc \in {"send", "recv"}
    /\ ctx[t].sock # 0
    /\ Count(ctx[t].ops, "peek") = 1
    /\ Count(ctx[t].ops, "connect") = 0

\* C25: a pooled connection that passed the liveness validation is handed
\* back in blocking mode with the timeout of the current call, never in
\* non-blocking mode.
C25_ReusedBlockingWithCallTimeout ==
    \A t \in Threads : Reused(t) =>
        /\ conns[ctx[t].sock].timeout = ctx[t].timeout
        /\ conns[ctx[t].sock].timeout # 0

\* within one call: at most one connect, one send of one frame, one new
\* socket
C26_AtMostOnce ==
    \A t \in Threads : ctx[t].pc # "idle" =>
        /\ Count(ctx[t].ops, "connect") <= 1
        /\ Count(ctx[t].ops, "send") <= 1
        /\ Len(ctx[t].sent) <= 1
        /\ Len(conns) <= ctx[t].c0 + 1

\* a call past its discovery scan never scans again, keeps its port, and
\* moves only forward: a failure ends it
C26_OnlyForward ==
    \A t \in Threads :
        /\ ctx[t].pc \in {"acquire", "connect", "send", "recv", "done"} =>
              ctx'[t].pc # "discover" \/ ctx'[t].call # ctx[t].call
        /\ ctx[t].pc \in {"acquire", "connect", "send", "recv"} =>
              /\ ctx'[t].call = ctx[t].call
              /\ ctx'[t].port = ctx[t].port
        /\ ctx[t].pc = "connect" => ctx'[t].pc \in {"connect", "send", "done"}
        /\ ctx[t].pc = "send" => ctx'[t].pc \in {"send", "recv", "done"}
        /\ ctx[t].pc = "recv" => ctx'[t].pc \in {"recv", "done"}

\* C26: each call makes one discovery scan, creates at most one new
\* connection and writes at most one request frame; after a failure it
\* returns the error with no retry, no reconnection and no other port.
C26_NoRetry == []C26_AtMostOnce /\ [][C26_OnlyForward]_vars

\* the peer closed after the liveness test had passed: the call wrote its
\* frame, read end-of-stream and returned the error, with the endpoint
\* still listening on the port
C26_Witness ==
    \E t \in Threads :
        /\ ReturnedError(t, "Connection closed by server")
        /\ ctx[t].ops = <<"peek", "send", "recv", "close">>
        /\ Len(ctx[t].sent) = 1
        /\ Len(conns) = ctx[t].c0
        /\ ctx[t].port.n \in listening
        /\ pool = EmptyPool

IsPrefix(p, q) == Len(p) <= Len(q) /\ SubSeq(q, 1, Len(p)) = p

\* the validation step of get_socket reads nothing, and hands back a
\* pooled socket that has unread bytes
C27_PeekConsumesNothing ==
    \A t \in Threads :
        (ctx[t].pc = "acquire" /\ ctx'[t].pc # "acquire") =>
            /\ \A c \in DOMAIN conns : conns'[c].inbuf = conns[c].inbuf
            /\ \A k \in DOMAIN pool :
                  (k = Key(ctx[t].port) /\ conns[pool[k]].closed = 0
                                       /\ conns[pool[k]].inbuf # <<>>)
                  => /\ ctx'[t].pc = "send" /\ ctx'[t].sock = pool[k]
                     /\ pool' = pool
                     /\ conns'[pool[k]].closed = 0

\* the first read of the call takes the bytes that were pending
C27_FirstReadTakesPending ==
    \A t \in Threads :
        (/\ ctx[t].pc = "recv" /\ ctx[t].pend # <<>> /\ ctx[t].response = <<>>
         /\ ctx'[t] # ctx[t])
        => /\ IsPrefix(ctx[t].pend, conns[ctx[t].sock].inbuf)
           /\ conns'[ctx[t].sock].inbuf = <<>>
           /\ Count(ctx'[t].ops, "recv") = 1

\* what the call has read begins with the bytes that were pending
C27_ResponseStartsWithPending ==
    \A t \in Threads :
        (ctx[t].pc \in {"recv", "done"} /\ ctx[t].response # <<>>)
            => IsPrefix(ctx[t].pend, ctx[t].response)

\* C27: the liveness validation consumes no bytes, a pooled connection
\* with unread bytes pending passes it and is reused, and the exchange that
\* follows reads those bytes first, as its response or the start of it.
C27_PendingBytesReused ==
    /\ []C27_ResponseStartsWithPending
    /\ [][C27_PeekConsumesNothing /\ C27_FirstReadTakesPending]_vars

\* a second call reused the connection on which a frame nobody asked for
\* was pending, and returned that frame as its reply
C27_Witness ==
    \E t \in Threads :
        /\ ctx[t].pc = "done" /\ ctx[t].call = 2
        /\ ctx[t].ops = <<"peek", "send", "recv">>
        /\ Len(ctx[t].pend) = 2
        /\ ctx[t].pend[1].k = "json" /\ ctx[t].pend[2].k = "nl"
        /\ ctx[t].response = ctx[t].pend
        /\ ~ctx[t].ret.raised
        /\ ctx[t].ret.val = ctx[t].pend[1].v

\* t is inside a call whose endpoint key is known
Resolved(t) == ctx[t].pc \in {"acquire", "connect", "send", "recv"}

\* C28: a call resolved to endpoint key K never closes or removes a
\* pooled connection stored under another key: a step taken while the call
\* runs leaves every other entry in the pool, on the same socket, with no
\* further close.
C28_OtherKeysUntouched ==
    [][\A t \in Threads : Resolved(t) =>
         \A k \in DOMAIN pool \ {Key(ctx[t].port)} :
             /\ k \in DOMAIN pool'
             /\ pool'[k] = pool[k]
             /\ conns'[pool[k]].closed = conns[pool[k]].closed]_vars

\* the endpoint moved from port 8080 to port 8081: a later call was
\* answered on 8081 while the connection to 8080 is still pooled and open
C28_Witness ==
    \E t \in Threads :
        /\ ReturnedOwnReply(t)
        /\ ctx[t].call >= 2
        /\ ctx[t].port = IntPort(8081)
        /\ Key(IntPort(8080)) \in DOMAIN pool
        /\ Key(IntPort(8081)) \in DOMAIN pool
        /\ conns[pool[Key(IntPort(8080))]].closed = 0
        /\ conns[pool[Key(IntPort(8080))]].port = 8080

\* a store over an existing pool entry is made by a context leaving
\* get_socket with a new socket, and leaves the socket it replaces as it was
C29_OverwriteLeavesOpen ==
    \A k \in DOMAIN pool :
        (k \in DOMAIN pool' /\ pool'[k] # pool[k]) =>
            /\ conns'[pool[k]] = conns[pool[k]]
            /\ pool'[k] = Len(conns) + 1
            /\ \E t \in Threads :
                  /\ ctx[t].pc = "connect" /\ ctx'[t].pc = "send"
                  /\ Key(ctx[t].port) = k /\ ctx'[t].sock = pool'[k]

\* an unclosed socket outside the pool stays outside it and unclosed
C29_LeakedStaysOpen ==
    \A c \in DOMAIN conns :
        (conns[c].closed = 0 /\ c \notin Range(pool)) =>
            conns'[c].closed = 0 /\ c \notin Range(pool')

\* an unclosed socket is outside the pool only if a later connection to
\* the same port was stored over it
C29_UnclosedOutsidePool ==
    \A c \in DOMAIN conns :
        (conns[c].closed = 0 /\ c \notin Range(pool)) =>
            \E d \in DOMAIN conns : d > c /\ conns[d].port = conns[c].port

\* C29: when two contexts are in get_socket for the same absent key, both
\* may connect; the second store then replaces the first in the pool, and
\* the first connection is outside the pool, not closed then and never
\* closed afterwards.
C29_OverwriteLeaks ==
    /\ []C29_UnclosedOutsidePool
    /\ [][C29_OverwriteLeavesOpen /\ C29_LeakedStaysOpen]_vars

\* both calls began with an empty pool and both connected; both have
\* ended, the pool holds the second connection and the first is unclosed
C29_Witness ==
    \E t, u \in Threads :
        /\ t # u
        /\ ctx[t].pc = "done" /\ ctx[u].pc = "done"
        /\ ctx[t].c0 = 0 /\ ctx[u].c0 = 0
        /\ Count(ctx[t].ops, "connect") = 1 /\ Count(ctx[u].ops, "connect") = 1
        /\ ctx[t].sock = 1 /\ ctx[u].sock = 2
        /\ Len(conns) = 2
        /\ DOMAIN pool = {Key(ctx[t].port)} /\ Range(pool) = {2}
        /\ conns[1].closed = 0

\* C30: alias resolution is idempotent: resolving a resolved name gives
\* the same name, for every name given to main and every name of the
\* table, because every canonical name of the table is a key mapped to
\* itself or no key at all.
C30_ResolveIdempotent ==
    /\ \A x \in CliNames \cup {COMMANDS[k] : k \in DOMAIN COMMANDS} :
          /\ Resolve(Resolve(x)) = Resolve(x)
          /\ Resolve(x) \in DOMAIN COMMANDS => COMMANDS[Resolve(x)] = Resolve(x)
    /\ \A t \in Threads :
          (ctx[t].mode = "cli" /\ ctx[t].parsed = "ok") =>
              /\ ctx[t].command = Resolve(ctx[t].argv)
              /\ Resolve(ctx[t].command) = ctx[t].command

\* main was given the alias "orbit" and called send_command with
\* "start_orbit", which resolves to itself
C30_Witness ==
    \E t \in Threads :
        /\ ctx[t].mode = "cli" /\ ctx[t].parsed = "ok"
        /\ ctx[t].argv = "orbit"
        /\ ctx[t].command = "start_orbit"
        /\ Resolve(ctx[t].command) = "start_orbit"
        /\ Len(ctx[t].sent) = 1

====
